---- MODULE Spec2Model ----
(***************************************************************************)
(* Model of cmd/incus/monitor.go: cmdMonitor.Run (option validation, feed  *)
(* subscription, the event handler closure, the background wait goroutine  *)
(* and the receive on chError) and cmdMonitor.unpackCtx.                   *)
(***************************************************************************)
EXTENDS Integers, Sequences, FiniteSets, TLC

VARIABLES
    numArgs,        \* len(args)
    inFormat,       \* value of --format as given on the command line
    flagFormat,     \* c.flagFormat (overwritten by the pretty shorthand)
    flagPretty,     \* c.flagPretty
    flagLogLevel,   \* c.flagLogLevel
    flagAllProjects,\* c.flagAllProjects
    flagType,       \* c.flagType
    pcRun,          \* position of Run
    runResult,      \* value returned by Run
    logLevel,       \* local logLevel of Run
    clustered,      \* d.IsClustered()
    feed,           \* the event listener: "none", "open", "closed"
    feedErr,        \* value listener.Wait() returns once the feed is closed
    eventsCall,     \* which call was made to open the feed
    registered,     \* handler is among the listener's targets
    chError,        \* buffered channel chError (capacity ChanCap)
    pcWait,         \* position of the goroutine of lines 219-221
    waitVal,        \* value listener.Wait() returned in that goroutine
    hPc,            \* position of the in-flight handler invocation
    hEv,            \* event of the in-flight handler invocation
    hSeq,           \* delivery number of the in-flight handler invocation
    hErr,           \* error the in-flight invocation is about to send
    nDelivered,     \* number of handler invocations started so far
    stdout,         \* what was printed, in order
    sent,           \* history: values whose send on chError completed, in order
    occurred,       \* history: terminal events in the order they happened
    delivered,      \* history: the events handed to the handler, in order
    uCtx,           \* unpackCtx: the argument ctx
    uI,             \* unpackCtx: position of the range loop in ctx
    uKey,           \* unpackCtx: local key
    uOut            \* unpackCtx: local out

vars == <<numArgs, inFormat, flagFormat, flagPretty, flagLogLevel,
          flagAllProjects, flagType, pcRun, runResult, logLevel, clustered,
          feed, feedErr, eventsCall, registered, chError, pcWait, waitVal,
          hPc, hEv, hSeq, hErr, nDelivered, stdout, sent, occurred,
          delivered, uCtx, uI, uKey, uOut>>

flagVars == <<numArgs, inFormat, flagPretty, flagLogLevel, flagAllProjects, flagType>>
handlerVars == <<hPc, hEv, hSeq, hErr, nDelivered, stdout>>
waitVars == <<pcWait, waitVal>>
histVars == <<sent, occurred>>
unpackVars == <<uCtx, uI, uKey, uOut>>

----------------------------------------------------------------------------
\* Bounds

MaxEvents == 2      \* handler invocations per session
MaxArgs == 2        \* positional arguments tried
MaxCtxLen == 4      \* tokens in a context handed to unpackCtx

\* Program constants

ChanCap_Two == 1 + 1  \* a slot per reporter

ChanCap == 1        \* make(chan error, 1)

----------------------------------------------------------------------------
\* Errors.  An error value records who produced it.

Err(src, seq, msg) == [src |-> src, seq |-> seq, msg |-> msg]

Nil == Err("none", 0, "nil")
NoResult == Err("none", 0, "not returned")

ErrArgs == Err("run", 0, "Invalid number of arguments")
ErrInvalidFormat == Err("run", 0, "Invalid format")
ErrLogLevelFormat == Err("run", 0, "Log level filtering can only be used with pretty formatting")
ErrParseLevel == Err("run", 0, "not a valid logrus Level")
ErrRemote == Err("run", 0, "remote")
ErrGetEvents == Err("run", 0, "GetEvents")
ErrAddHandler == Err("run", 0, "AddHandler")
ErrTransport == Err("wait", 0, "transport")

ConfigErrors == {ErrInvalidFormat, ErrLogLevelFormat, ErrParseLevel}

----------------------------------------------------------------------------
\* logrus levels and logrus.ParseLevel

PanicLevel == 0
FatalLevel == 1
ErrorLevel == 2
WarnLevel == 3
InfoLevel == 4
DebugLevel == 5
TraceLevel == 6

NoLevel == 0 - 1

\* strings.ToLower on the tokens of the model
ToLower(s) ==
    CASE s = "INFO" -> "info"
      [] s = "Error" -> "error"
      [] OTHER -> s

\* logrus.ParseLevel: the level, or NoLevel when it returns an error
ParseLevel(s) ==
    LET l == ToLower(s) IN
    CASE l = "panic" -> PanicLevel
      [] l = "fatal" -> FatalLevel
      [] l = "error" -> ErrorLevel
      [] l = "warn" -> WarnLevel
      [] l = "warning" -> WarnLevel
      [] l = "info" -> InfoLevel
      [] l = "debug" -> DebugLevel
      [] l = "trace" -> TraceLevel
      [] OTHER -> NoLevel

----------------------------------------------------------------------------
\* Option validation (lines 73-84)

Formats == {"json", "pretty", "yaml"}

ValidFormat_NoYaml(f) == f \in {"json", "pretty"}

\* slices.Contains([]string{"json", "pretty", "yaml"}, c.flagFormat)
ValidFormat(f) == f \in Formats

SetupFormat_OnlyDefault(f, pretty) == IF pretty /\ f = "yaml" THEN "pretty" ELSE f

\* if c.flagPretty { c.flagFormat = "pretty" }
SetupFormat(f, pretty) == IF pretty THEN "pretty" ELSE f

LogLevelConflict_JsonOnly(f, lvl) == f = "json" /\ lvl # ""

LogLevelConflict_YamlOnly(f, lvl) == f = "yaml" /\ lvl # ""

\* c.flagFormat != "pretty" && c.flagLogLevel != ""
LogLevelConflict(f, lvl) == f # "pretty" /\ lvl # ""

----------------------------------------------------------------------------
\* Context tokens and cmdMonitor.unpackCtx (lines 226-240)

S(v) == [t |-> "str", s |-> v, n |-> 0]
I(v) == [t |-> "int", s |-> "", n |-> v]

Digits == <<"0", "1", "2", "3", "4", "5", "6", "7", "8", "9">>

\* fmt.Sprintf("%v", entry)
Sprintf(tok) == IF tok.t = "str" THEN tok.s ELSE Digits[tok.n + 1]

EmptyFields == [k \in {} |-> ""]

\* one iteration of the loop body: st = [key, out]
unpackStep(st, entry) ==
    IF st.key = ""
    THEN [key |-> Sprintf(entry), out |-> st.out]
    ELSE [key |-> "",
          out |-> [k \in (DOMAIN st.out) \cup {st.key} |->
                      IF k = st.key THEN Sprintf(entry) ELSE st.out[k]]]

RECURSIVE unpackLoop(_, _, _)
unpackLoop(ctx, i, st) ==
    IF i > Len(ctx) THEN st
    ELSE unpackLoop(ctx, i + 1, unpackStep(st, ctx[i]))

unpackCtx(ctx) == unpackLoop(ctx, 1, [key |-> "", out |-> EmptyFields]).out

----------------------------------------------------------------------------
\* Events the feed can deliver.  decodeOk: event.ToLogging() succeeds and
\* yields the record (lvl, msg, ctx); enc: which step of rendering fails.

Event(type, decodeOk, lvl, msg, ctx, enc) ==
    [type |-> type, location |-> "node1", decodeOk |-> decodeOk,
     lvl |-> lvl, msg |-> msg, ctx |-> ctx, enc |-> enc]

Events ==
    { Event("logging", TRUE, "info", "m1", <<S("k"), I(1)>>, "ok"),
      Event("logging", TRUE, "dbug", "m2", <<>>, "ok"),
      Event("logging", FALSE, "", "", <<>>, "ok"),
      Event("logging", TRUE, "bogus", "m4", <<>>, "unmarshal"),
      Event("lifecycle", TRUE, "error", "m5", <<S("k")>>, "marshal"),
      Event("lifecycle", TRUE, "trace", "m6", <<>>, "render"),
      Event("logging", TRUE, "Error", "m7", <<>>, "format") }

NoEvent == Event("", FALSE, "", "", <<>>, "ok")

----------------------------------------------------------------------------
\* The handler closure (lines 125-212), as a function of the event and of
\* the variables it closes over.  Result: an error, a suppression, or the
\* text handed to fmt.Print / fmt.Printf.

Failed(msg) == [kind |-> "err", msg |-> msg]
Suppressed_AsError == [kind |-> "err", msg |-> "filtered"]

Suppressed == [kind |-> "skip"]
Printed(line) == [kind |-> "print", line |-> line]

\* record.Lvl == "dbug" -> "debug"
NormLvl(lvl) == IF lvl = "dbug" THEN "debug" ELSE lvl

BelowThreshold_Strict(msgLevel, threshold) == msgLevel >= threshold

\* msgLevel > logLevel
BelowThreshold(msgLevel, threshold) == msgLevel > threshold

Message_ClusteredOnly(ev, cl) ==
    IF cl THEN <<"[", ev.location, "] ", ev.msg>> ELSE <<ev.msg>>

\* event.Type == "logging" && d.IsClustered()
Message(ev, cl) ==
    IF ev.type = "logging" /\ cl
    THEN <<"[", ev.location, "] ", ev.msg>>
    ELSE <<ev.msg>>

HandlerPretty(ev, threshold, cl) ==
    IF ~ev.decodeOk THEN Failed("ToLogging")
    ELSE LET msgLevel == ParseLevel(NormLvl(ev.lvl)) IN
         IF msgLevel = NoLevel THEN Failed("ParseLevel")
         ELSE IF BelowThreshold(msgLevel, threshold) THEN Suppressed
         ELSE IF ev.enc = "format" THEN Failed("Format")
         ELSE Printed([fmt |-> "pretty", level |-> msgLevel,
                       msg |-> Message(ev, cl), data |-> unpackCtx(ev.ctx),
                       sep |-> ""])

HandlerStructured(ev, f) ==
    IF ev.enc = "marshal" THEN Failed("json.Marshal")
    ELSE IF ev.enc = "unmarshal" THEN Failed("json.Unmarshal")
    ELSE IF f \in {"yaml", "json"} /\ ev.enc = "render" THEN Failed(f)
    ELSE Printed([fmt |-> f, level |-> NoLevel, msg |-> <<ev.msg>>,
                  data |-> ev.ctx, sep |-> "\n\n"])

Handler(ev, f, threshold, cl) ==
    IF f = "pretty" THEN HandlerPretty(ev, threshold, cl)
    ELSE HandlerStructured(ev, f)

----------------------------------------------------------------------------
\* Initial state: the flags as cobra parsed them, nothing run yet.

FormatInputs == {"json", "pretty", "yaml", "xml"}
LogLevelInputs == {"", "INFO", "bogus"}
TypeInputs == {<<>>, <<"logging">>}

Init ==
    /\ numArgs \in 0..MaxArgs
    /\ inFormat \in FormatInputs
    /\ flagFormat = inFormat
    /\ flagPretty \in BOOLEAN
    /\ flagLogLevel \in LogLevelInputs
    /\ flagAllProjects \in BOOLEAN
    /\ flagType \in TypeInputs
    /\ pcRun = "checkArgs"
    /\ runResult = NoResult
    /\ logLevel = NoLevel
    /\ clustered = FALSE
    /\ feed = "none"
    /\ feedErr = Nil
    /\ eventsCall = "none"
    /\ registered = FALSE
    /\ chError = <<>>
    /\ pcWait = "notstarted"
    /\ waitVal = Nil
    /\ hPc = "idle"
    /\ hEv = NoEvent
    /\ hSeq = 0
    /\ hErr = Nil
    /\ nDelivered = 0
    /\ stdout = <<>>
    /\ sent = <<>>
    /\ occurred = <<>>
    /\ delivered = <<>>
    /\ uCtx = <<>>
    /\ uI = 1
    /\ uKey = ""
    /\ uOut = EmptyFields

----------------------------------------------------------------------------
\* Run, step by step

Return(e) == pcRun' = "done" /\ runResult' = e

\* lines 68-71: checkArgs(cmd, args, 0, 1)
RunCheckArgs ==
    /\ pcRun = "checkArgs"
    /\ IF numArgs > 1
       THEN Return(ErrArgs)
       ELSE pcRun' = "validate" /\ UNCHANGED runResult
    /\ UNCHANGED <<unpackVars, delivered, flagVars, flagFormat, logLevel, clustered, feed, feedErr,
                   eventsCall, registered, chError, waitVars, handlerVars, histVars>>

\* lines 73-84
RunValidate ==
    /\ pcRun = "validate"
    /\ IF ~ValidFormat(flagFormat)
       THEN Return(ErrInvalidFormat) /\ UNCHANGED flagFormat
       ELSE /\ flagFormat' = SetupFormat(flagFormat, flagPretty)
            /\ IF LogLevelConflict(flagFormat', flagLogLevel)
               THEN Return(ErrLogLevelFormat)
               ELSE pcRun' = "connect" /\ UNCHANGED runResult
    /\ UNCHANGED <<unpackVars, delivered, flagVars, logLevel, clustered, feed, feedErr,
                   eventsCall, registered, chError, waitVars, handlerVars, histVars>>

\* lines 86-102: conf.ParseRemote and conf.GetInstanceServer
RunConnect ==
    /\ pcRun = "connect"
    /\ \E ok \in BOOLEAN, cl \in BOOLEAN :
         IF ok
         THEN pcRun' = "getEvents" /\ clustered' = cl /\ UNCHANGED runResult
         ELSE Return(ErrRemote) /\ UNCHANGED clustered
    /\ UNCHANGED <<unpackVars, delivered, flagVars, flagFormat, logLevel, feed, feedErr,
                   eventsCall, registered, chError, waitVars, handlerVars, histVars>>

\* lines 104-113: d.GetEventsAllProjects() or d.GetEvents()
RunGetEvents ==
    /\ pcRun = "getEvents"
    /\ eventsCall' = IF flagAllProjects THEN "GetEventsAllProjects" ELSE "GetEvents"
    /\ \E ok \in BOOLEAN :
         IF ok
         THEN pcRun' = "parseLevel" /\ feed' = "open" /\ UNCHANGED runResult
         ELSE Return(ErrGetEvents) /\ UNCHANGED feed
    /\ UNCHANGED <<unpackVars, delivered, flagVars, flagFormat, logLevel, clustered, feedErr,
                   registered, chError, waitVars, handlerVars, histVars>>

\* the threshold defaulting to info instead of debug
RunParseLevel_DefaultInfo ==
    /\ pcRun = "parseLevel"
    /\ IF flagLogLevel # ""
       THEN IF ParseLevel(flagLogLevel) = NoLevel
            THEN Return(ErrParseLevel) /\ UNCHANGED logLevel
            ELSE /\ logLevel' = ParseLevel(flagLogLevel)
                 /\ pcRun' = "addHandler" /\ UNCHANGED runResult
       ELSE /\ logLevel' = InfoLevel
            /\ pcRun' = "addHandler" /\ UNCHANGED runResult
    /\ UNCHANGED <<unpackVars, delivered, flagVars, flagFormat, clustered, feed, feedErr,
                   eventsCall, registered, chError, waitVars, handlerVars, histVars>>

\* lines 115-121
RunParseLevel ==
    /\ pcRun = "parseLevel"
    /\ IF flagLogLevel # ""
       THEN IF ParseLevel(flagLogLevel) = NoLevel
            THEN Return(ErrParseLevel) /\ UNCHANGED logLevel
            ELSE /\ logLevel' = ParseLevel(flagLogLevel)
                 /\ pcRun' = "addHandler" /\ UNCHANGED runResult
       ELSE /\ logLevel' = DebugLevel
            /\ pcRun' = "addHandler" /\ UNCHANGED runResult
    /\ UNCHANGED <<unpackVars, delivered, flagVars, flagFormat, clustered, feed, feedErr,
                   eventsCall, registered, chError, waitVars, handlerVars, histVars>>

\* the wait goroutine started before the result of AddHandler is checked
RunAddHandler_WaitFirst ==
    /\ pcRun = "addHandler"
    /\ pcWait' = "waiting"
    /\ \E ok \in BOOLEAN :
         IF ok
         THEN pcRun' = "recv" /\ registered' = TRUE /\ UNCHANGED runResult
         ELSE Return(ErrAddHandler) /\ UNCHANGED registered
    /\ UNCHANGED <<unpackVars, delivered, flagVars, flagFormat, logLevel, clustered, feed, feedErr,
                   eventsCall, chError, waitVal, handlerVars, histVars>>

\* lines 123, 214-217: make(chan error, 1); listener.AddHandler(c.flagType, handler)
RunAddHandler ==
    /\ pcRun = "addHandler"
    /\ \E ok \in BOOLEAN :
         IF ok
         THEN pcRun' = "startWait" /\ registered' = TRUE /\ UNCHANGED runResult
         ELSE Return(ErrAddHandler) /\ UNCHANGED registered
    /\ UNCHANGED <<unpackVars, delivered, flagVars, flagFormat, logLevel, clustered, feed, feedErr,
                   eventsCall, chError, waitVars, handlerVars, histVars>>

\* lines 219-221: go func() { ... }()
RunStartWait ==
    /\ pcRun = "startWait"
    /\ pcRun' = "recv"
    /\ pcWait' = "waiting"
    /\ UNCHANGED <<unpackVars, delivered, flagVars, flagFormat, runResult, logLevel, clustered, feed,
                   feedErr, eventsCall, registered, chError, waitVal,
                   handlerVars, histVars>>

\* Run aggregating the received value with a report still pending
RunRecv_Joined ==
    /\ pcRun = "recv"
    /\ Len(chError) > 0
    /\ Return(IF hPc = "send" \/ pcWait = "send"
              THEN Err("run", 0, "joined") ELSE Head(chError))
    /\ chError' = Tail(chError)
    /\ UNCHANGED <<unpackVars, delivered, flagVars, flagFormat, logLevel, clustered, feed, feedErr,
                   eventsCall, registered, waitVars, handlerVars, histVars>>

\* Run skipping the errors of the handler and going on receiving
RunRecv_SkipHandlerErrors ==
    /\ pcRun = "recv"
    /\ Len(chError) > 0
    /\ IF Head(chError).src = "handler"
       THEN UNCHANGED <<pcRun, runResult>>
       ELSE Return(Head(chError))
    /\ chError' = Tail(chError)
    /\ UNCHANGED <<unpackVars, delivered, flagVars, flagFormat, logLevel, clustered, feed, feedErr,
                   eventsCall, registered, waitVars, handlerVars, histVars>>

\* line 223: return <-chError
RunRecv ==
    /\ pcRun = "recv"
    /\ Len(chError) > 0
    /\ Return(Head(chError))
    /\ chError' = Tail(chError)
    /\ UNCHANGED <<unpackVars, delivered, flagVars, flagFormat, logLevel, clustered, feed, feedErr,
                   eventsCall, registered, waitVars, handlerVars, histVars>>

Run ==
    \/ RunCheckArgs
    \/ RunValidate
    \/ RunConnect
    \/ RunGetEvents
    \/ RunParseLevel
    \/ RunAddHandler
    \/ RunStartWait
    \/ RunRecv

----------------------------------------------------------------------------
\* The feed (the listener of the client library) and the wait goroutine

\* the connection of the feed ends, cleanly (Nil) or with a transport error
FeedClose ==
    /\ feed = "open"
    /\ feed' = "closed"
    /\ \E r \in {Nil, ErrTransport} : feedErr' = r
    /\ UNCHANGED <<unpackVars, delivered, flagVars, flagFormat, pcRun, runResult, logLevel, clustered,
                   eventsCall, registered, chError, waitVars, handlerVars, histVars>>

\* line 220: listener.Wait() returns
WaitReturn ==
    /\ pcWait = "waiting"
    /\ feed = "closed"
    /\ pcWait' = "send"
    /\ waitVal' = feedErr
    /\ occurred' = Append(occurred, feedErr)
    /\ UNCHANGED <<unpackVars, delivered, flagVars, flagFormat, pcRun, runResult, logLevel, clustered,
                   feed, feedErr, eventsCall, registered, chError, handlerVars, sent>>

\* the wait goroutine storing its value over whatever is buffered
WaitSend_Overwrite ==
    /\ pcWait = "send"
    /\ chError' = <<waitVal>>
    /\ sent' = Append(sent, waitVal)
    /\ pcWait' = "done"
    /\ UNCHANGED <<unpackVars, delivered, flagVars, flagFormat, pcRun, runResult, logLevel, clustered,
                   feed, feedErr, eventsCall, registered, waitVal, handlerVars, occurred>>

\* the wait goroutine sending only a non-nil result of Wait
WaitSend_OnlyErrors ==
    /\ pcWait = "send"
    /\ IF waitVal = Nil
       THEN UNCHANGED <<chError, sent>>
       ELSE /\ Len(chError) < ChanCap
            /\ chError' = Append(chError, waitVal)
            /\ sent' = Append(sent, waitVal)
    /\ pcWait' = "done"
    /\ UNCHANGED <<unpackVars, delivered, flagVars, flagFormat, pcRun, runResult, logLevel, clustered,
                   feed, feedErr, eventsCall, registered, waitVal, handlerVars, occurred>>

\* line 220: chError <- (the value Wait returned)
WaitSend ==
    /\ pcWait = "send"
    /\ Len(chError) < ChanCap
    /\ chError' = Append(chError, waitVal)
    /\ sent' = Append(sent, waitVal)
    /\ pcWait' = "done"
    /\ UNCHANGED <<unpackVars, delivered, flagVars, flagFormat, pcRun, runResult, logLevel, clustered,
                   feed, feedErr, eventsCall, registered, waitVal, handlerVars, occurred>>

----------------------------------------------------------------------------
\* Handler invocations, at most one in flight

Range(s) == {s[i] : i \in DOMAIN s}

\* AddHandler(c.flagType, ...): the listener delivers the types asked for
TypeMatches(types, ev) == types = <<>> \/ ev.type \in Range(types)

\* the listener calls handler(event)
HandlerBegin ==
    /\ registered
    /\ feed = "open"
    /\ hPc = "idle"
    /\ nDelivered < MaxEvents
    /\ \E ev \in Events :
         /\ TypeMatches(flagType, ev)
         /\ hEv' = ev
         /\ delivered' = Append(delivered, ev)
    /\ hPc' = "running"
    /\ nDelivered' = nDelivered + 1
    /\ hSeq' = nDelivered + 1
    /\ UNCHANGED <<unpackVars, flagVars, flagFormat, pcRun, runResult, logLevel, clustered,
                   feed, feedErr, eventsCall, registered, chError, waitVars,
                   hErr, stdout, histVars>>

\* the handler putting its output ahead of what was printed before
HandlerRun_Prepend ==
    /\ hPc = "running"
    /\ LET r == Handler(hEv, flagFormat, logLevel, clustered) IN
         CASE r.kind = "err" ->
                /\ hErr' = Err("handler", hSeq, r.msg)
                /\ hPc' = "send"
                /\ occurred' = Append(occurred, hErr')
                /\ UNCHANGED stdout
           [] r.kind = "skip" ->
                /\ hPc' = "idle"
                /\ UNCHANGED <<hErr, stdout, occurred>>
           [] r.kind = "print" ->
                /\ stdout' = <<[seq |-> hSeq, line |-> r.line]>> \o stdout
                /\ hPc' = "idle"
                /\ UNCHANGED <<hErr, occurred>>
    /\ UNCHANGED <<unpackVars, delivered, flagVars, flagFormat, pcRun, runResult, logLevel, clustered,
                   feed, feedErr, eventsCall, registered, chError, waitVars,
                   hEv, hSeq, nDelivered, sent>>

\* lines 126-211 up to the channel send or the print
HandlerRun ==
    /\ hPc = "running"
    /\ LET r == Handler(hEv, flagFormat, logLevel, clustered) IN
         CASE r.kind = "err" ->
                /\ hErr' = Err("handler", hSeq, r.msg)
                /\ hPc' = "send"
                /\ occurred' = Append(occurred, hErr')
                /\ UNCHANGED stdout
           [] r.kind = "skip" ->
                /\ hPc' = "idle"
                /\ UNCHANGED <<hErr, stdout, occurred>>
           [] r.kind = "print" ->
                /\ stdout' = Append(stdout, [seq |-> hSeq, line |-> r.line])
                /\ hPc' = "idle"
                /\ UNCHANGED <<hErr, occurred>>
    /\ UNCHANGED <<unpackVars, delivered, flagVars, flagFormat, pcRun, runResult, logLevel, clustered,
                   feed, feedErr, eventsCall, registered, chError, waitVars,
                   hEv, hSeq, nDelivered, sent>>

\* chError <- err; return
HandlerSend ==
    /\ hPc = "send"
    /\ Len(chError) < ChanCap
    /\ chError' = Append(chError, hErr)
    /\ sent' = Append(sent, hErr)
    /\ hPc' = "idle"
    /\ UNCHANGED <<unpackVars, delivered, flagVars, flagFormat, pcRun, runResult, logLevel, clustered,
                   feed, feedErr, eventsCall, registered, waitVars,
                   hEv, hSeq, hErr, nDelivered, stdout, occurred>>

----------------------------------------------------------------------------
Next ==
    \/ Run
    \/ FeedClose
    \/ WaitReturn
    \/ WaitSend
    \/ HandlerBegin
    \/ HandlerRun
    \/ HandlerSend

Spec == Init /\ [][Next]_vars

\* Go schedules every runnable goroutine; the feed closing and the arrival
\* of events are up to the environment.
Fairness ==
    /\ WF_vars(Run)
    /\ WF_vars(WaitReturn)
    /\ WF_vars(WaitSend)
    /\ WF_vars(HandlerRun)
    /\ WF_vars(HandlerSend)

FairSpec == Spec /\ Fairness

TypeOK ==
    /\ pcRun \in {"checkArgs", "validate", "connect", "getEvents", "parseLevel",
                  "addHandler", "startWait", "recv", "done"}
    /\ pcWait \in {"notstarted", "waiting", "send", "done"}
    /\ hPc \in {"idle", "running", "send"}
    /\ feed \in {"none", "open", "closed"}
    /\ Len(chError) <= ChanCap
    /\ nDelivered \in 0..MaxEvents

----------------------------------------------------------------------------
\* cmdMonitor.unpackCtx run on its own, one iteration of the loop per step

Tokens == {S("a"), S("b"), S(""), I(1), I(2)}

RECURSIVE SeqsUpTo(_)
SeqsUpTo(n) ==
    IF n = 0 THEN {<<>>}
    ELSE LET shorter == SeqsUpTo(n - 1) IN
         shorter \cup {Append(q, t) : q \in {r \in shorter : Len(r) = n - 1}, t \in Tokens}

CtxInputs == SeqsUpTo(MaxCtxLen)

\* a call unpackCtx(ctx): out := logrus.Fields{}; var key string
UnpackInit ==
    /\ uCtx \in CtxInputs
    /\ uI = 1
    /\ uKey = ""
    /\ uOut = EmptyFields
    /\ numArgs = 0
    /\ inFormat = "pretty"
    /\ flagFormat = "pretty"
    /\ flagPretty = FALSE
    /\ flagLogLevel = ""
    /\ flagAllProjects = FALSE
    /\ flagType = <<>>
    /\ pcRun = "checkArgs"
    /\ runResult = NoResult
    /\ logLevel = NoLevel
    /\ clustered = FALSE
    /\ feed = "none"
    /\ feedErr = Nil
    /\ eventsCall = "none"
    /\ registered = FALSE
    /\ chError = <<>>
    /\ pcWait = "notstarted"
    /\ waitVal = Nil
    /\ hPc = "idle"
    /\ hEv = NoEvent
    /\ hSeq = 0
    /\ hErr = Nil
    /\ nDelivered = 0
    /\ stdout = <<>>
    /\ sent = <<>>
    /\ occurred = <<>>
    /\ delivered = <<>>

\* lines 230-237: the body of the range loop for ctx[uI]
UnpackIter ==
    /\ uI <= Len(uCtx)
    /\ LET st == unpackStep([key |-> uKey, out |-> uOut], uCtx[uI]) IN
         /\ uKey' = st.key
         /\ uOut' = st.out
    /\ uI' = uI + 1
    /\ UNCHANGED <<uCtx, delivered, flagVars, flagFormat, pcRun, runResult,
                   logLevel, clustered, feed, feedErr, eventsCall, registered,
                   chError, waitVars, handlerVars, histVars>>

\* line 239: return out
UnpackReturned == uI > Len(uCtx)

UnpackSpec == UnpackInit /\ [][UnpackIter]_vars

----------------------------------------------------------------------------
\* Vocabulary of the properties

PastValidation == pcRun \notin {"checkArgs", "validate"} /\ runResult # ErrArgs

\* Run went through line 223: its result came off chError
ReturnedFromRecv == pcRun = "done" /\ pcWait # "notstarted"

HandlerErrorIn(seq) == \E i \in DOMAIN seq : seq[i].src = "handler"

WaitTerminated == pcWait \in {"send", "done"}

----------------------------------------------------------------------------
\* C1: when a handler invocation reports an error and Wait terminates too,
\* Run returns once, with exactly one of the reported values (never a value
\* made of both), and it does not stay blocked on chError.
C1_OneOutcomeNoDeadlock ==
    /\ [](ReturnedFromRecv => \E i \in DOMAIN occurred : runResult = occurred[i])
    /\ [][pcRun = "done" => pcRun' = "done" /\ runResult' = runResult]_vars
    /\ (HandlerErrorIn(occurred) /\ WaitTerminated) ~> (pcRun = "done")

C1_Witness ==
    /\ ReturnedFromRecv
    /\ HandlerErrorIn(occurred)
    /\ WaitTerminated

\* C2 as stated: the terminal event that happens first (a handler hitting a
\* fatal error, or Wait returning) is the value Run returns.
C2_FirstOccurredWins ==
    ReturnedFromRecv => runResult = occurred[1]

\* C2 amended: the terminal value whose send on chError completes first is
\* the value Run returns, and every later one is discarded; a feed closure
\* is the result whenever its send precedes every handler error's send.
C2_FirstSentWins ==
    ReturnedFromRecv =>
        /\ runResult = sent[1]
        /\ \A i \in DOMAIN sent : i > 1 => sent[i] # runResult

C2_Witness ==
    /\ ReturnedFromRecv
    /\ Len(sent) = 2
    /\ sent[1] = waitVal
    /\ sent[2].src = "handler"
    /\ runResult = waitVal

\* C3 as stated: a fatal handler condition that happened before Run returns
\* makes Run return a non-nil error.
C3_FatalAlwaysPropagates ==
    [][pcRun # "done" /\ pcRun' = "done" /\ HandlerErrorIn(occurred)
          => runResult' # Nil]_vars

\* C3 amended: Run never returns nil when a handler's send of its fatal
\* error on chError completed before Run received; it returns a handler's
\* error then.
C3_ReportedNeverNil ==
    [][pcRun # "done" /\ pcRun' = "done" /\ HandlerErrorIn(sent)
          => runResult' # Nil /\ runResult'.src = "handler"]_vars

C3_Witness ==
    /\ ReturnedFromRecv
    /\ runResult.src = "handler"
    /\ pcWait = "done"
    /\ waitVal = Nil

\* C4: every configuration error is returned before any feed is opened: Run
\* never returns a configuration error after calling GetEvents or
\* GetEventsAllProjects.
C4_ConfigErrorBeforeFeed ==
    pcRun = "done" /\ runResult \in ConfigErrors
        => eventsCall = "none" /\ feed = "none"

\* C5 as stated: once a handler invocation has reported a fatal error, no
\* event delivered after that invocation is rendered.
C5_NothingRenderedAfterError ==
    \A i \in DOMAIN stdout, j \in DOMAIN sent :
        sent[j].src = "handler" => stdout[i].seq < sent[j].seq

\* C5 amended: once a handler invocation has reported a fatal error as the
\* first value on chError, Run eventually returns that error and the session
\* ends with it; events delivered before Run receives may still be rendered.
C5_ErrorEndsSession ==
    (sent # <<>> /\ sent[1].src = "handler")
        ~> (pcRun = "done" /\ sent # <<>> /\ runResult = sent[1])

C5_Witness ==
    /\ ReturnedFromRecv
    /\ runResult.src = "handler"
    /\ \E i \in DOMAIN stdout : stdout[i].seq > runResult.seq

\* C6: validation, feed opening and registration succeeded, no event is
\* delivered and the feed closes cleanly (Wait returns nil): Run eventually
\* returns, and it returns nil.
C6_CleanCloseReturnsNil ==
    /\ [](ReturnedFromRecv /\ nDelivered = 0 /\ feedErr = Nil => runResult = Nil)
    /\ (registered /\ feed = "closed" /\ feedErr = Nil /\ nDelivered = 0)
          ~> (pcRun = "done" /\ runResult = Nil)

C6_Witness ==
    /\ ReturnedFromRecv
    /\ nDelivered = 0
    /\ runResult = Nil
    /\ pcWait = "done"

\* C7: when opening the feed or AddHandler fails, Run returns that error at
\* once: the handler is never invoked, nothing is printed, the wait
\* goroutine is never started and nothing is sent on chError.
C7_SubscriptionFailure ==
    /\ (eventsCall # "none" /\ feed = "none"
            => pcRun = "done" /\ runResult = ErrGetEvents)
    /\ (pcRun \in {"startWait", "recv"} \/ ReturnedFromRecv => registered)
    /\ (pcRun = "done" /\ runResult \in {ErrGetEvents, ErrAddHandler}
            => /\ ~registered
               /\ nDelivered = 0
               /\ hPc = "idle"
               /\ stdout = <<>>
               /\ pcWait = "notstarted"
               /\ sent = <<>>
               /\ chError = <<>>)

C7_Witness ==
    /\ pcRun = "done"
    /\ runResult = ErrAddHandler
    /\ feed = "closed"

\* C8: the format string is accepted exactly when it is json, pretty or
\* yaml; any other string makes Run fail with "Invalid format", whatever the
\* other options are (the pretty shorthand included).
C8_FormatAcceptedIffKnown ==
    PastValidation =>
        /\ (inFormat \in {"json", "pretty", "yaml"} => runResult # ErrInvalidFormat)
        /\ (inFormat \notin {"json", "pretty", "yaml"}
               => pcRun = "done" /\ runResult = ErrInvalidFormat)

C8_Witness ==
    /\ pcRun = "done"
    /\ runResult = ErrInvalidFormat
    /\ flagPretty
    /\ flagLogLevel # ""

\* C9 as stated: with the pretty shorthand set, validation yields the format
\* pretty for every explicit format value.
C9_PrettyAlwaysOverrides ==
    PastValidation /\ flagPretty
        => flagFormat = "pretty" /\ runResult # ErrInvalidFormat

\* C9 amended: with the pretty shorthand set, validation yields the format
\* pretty for every explicit format value among json, pretty and yaml (any
\* other explicit value is rejected as an invalid format first).
C9_PrettyOverridesValid ==
    PastValidation /\ flagPretty /\ inFormat \in {"json", "pretty", "yaml"}
        => /\ flagFormat = "pretty"
           /\ runResult \notin {ErrInvalidFormat, ErrLogLevelFormat}

C9_Witness ==
    /\ pcRun = "connect"
    /\ flagPretty
    /\ inFormat = "json"
    /\ flagFormat = "pretty"

\* C10: a non-empty log-level filter with the resolved format json or yaml
\* always fails validation; with the resolved format pretty and a token that
\* parses to a known level it always passes, and the handler is registered
\* with that level as threshold.
C10_LogLevelNeedsPretty ==
    PastValidation /\ flagLogLevel # "" /\ runResult # ErrInvalidFormat =>
        /\ (flagFormat \in {"json", "yaml"}
               => pcRun = "done" /\ runResult = ErrLogLevelFormat)
        /\ (flagFormat = "pretty" /\ ParseLevel(flagLogLevel) # NoLevel
               => /\ runResult \notin ConfigErrors
                  /\ (pcRun \in {"addHandler", "startWait", "recv"} \/ registered
                         => logLevel = ParseLevel(flagLogLevel)))

C10_Witness ==
    /\ registered
    /\ flagLogLevel = "INFO"
    /\ logLevel = InfoLevel
    /\ inFormat = "yaml"

\* C11: for every token sequence unpackCtx returns the positional pairing:
\* the mapping str(t[2i-1]) -> str(t[2i]) over the complete pairs (counting
\* from 1), a later duplicate key overwriting an earlier one.
C11_PositionalPairing ==
    UnpackReturned =>
        LET n == Len(uCtx) \div 2
            keyAt(i) == Sprintf(uCtx[2 * i - 1])
            last(k) == CHOOSE i \in 1..n :
                          /\ keyAt(i) = k
                          /\ \A j \in 1..n : keyAt(j) = k => j <= i
        IN uOut = [k \in {keyAt(i) : i \in 1..n} |-> Sprintf(uCtx[2 * last(k)])]

\* C18: for every even-length sequence s and token k, unpackCtx(s ++ [k])
\* equals unpackCtx(s): the unmatched final key adds no entry.
C18_TrailingKeyDropped ==
    UnpackReturned /\ Len(uCtx) % 2 = 1
        => uOut = unpackCtx(SubSeq(uCtx, 1, Len(uCtx) - 1))

----------------------------------------------------------------------------
\* Vocabulary of the handler properties

\* a step in which the in-flight invocation runs up to its send or its return
HandlerRuns == hPc = "running" /\ hPc' # "running"

\* the severity of the record of the in-flight event: dbug counts as debug
Severity == ParseLevel(IF hEv.lvl = "dbug" THEN "debug" ELSE hEv.lvl)

\* the in-flight event decodes to a record with a known level and formats
Renderable == hEv.decodeOk /\ Severity # NoLevel /\ hEv.enc # "format"

WritesOne ==
    /\ Len(stdout') = Len(stdout) + 1
    /\ SubSeq(stdout', 1, Len(stdout)) = stdout
    /\ stdout'[Len(stdout')].seq = hSeq

\* C12: in pretty mode a decoded record is written exactly when its severity
\* (dbug read as debug) is at least as urgent as the threshold, and is
\* suppressed exactly when it is less urgent.
C12_SeverityFilter ==
    [][HandlerRuns /\ flagFormat = "pretty" /\ Renderable
          => /\ (Severity <= logLevel <=>
                    WritesOne /\ stdout'[Len(stdout')].line.level = Severity)
             /\ (Severity > logLevel <=> stdout' = stdout /\ hPc' = "idle")]_vars

C12_Witness ==
    /\ logLevel = InfoLevel
    /\ nDelivered = 2
    /\ hPc = "idle"
    /\ Len(stdout) = 1
    /\ stdout[1].seq = 1
    /\ stdout[1].line.level = ErrorLevel
    /\ delivered[2].lvl = "dbug"
    /\ occurred = <<>>

\* C13: in pretty mode the message carries the prefix "[location] " exactly
\* when the event is of type logging and the server is clustered; otherwise
\* it is the record's message alone.
C13_LocationPrefix ==
    [][HandlerRuns /\ flagFormat = "pretty" /\ Len(stdout') = Len(stdout) + 1
          => LET m == stdout'[Len(stdout')].line.msg IN
             IF hEv.type = "logging" /\ clustered
             THEN m = <<"[", hEv.location, "] ", hEv.msg>>
             ELSE m = <<hEv.msg>>]_vars

C13_Witness ==
    /\ flagFormat = "pretty"
    /\ clustered
    /\ Len(stdout) = 2
    /\ delivered[1].type = "logging"
    /\ Len(stdout[1].line.msg) = 4
    /\ delivered[2].type = "lifecycle"
    /\ Len(stdout[2].line.msg) = 1

\* C14: what was written is, in the same order, the delivered events with
\* the suppressed and the failed ones removed: one write per rendered event,
\* none reordered or merged.
C14_OutputInDeliveryOrder ==
    LET completed == IF hPc = "running" THEN nDelivered - 1 ELSE nDelivered
        out(n) == Handler(delivered[n], flagFormat, logLevel, clustered)
        rendered == {n \in 1..completed : out(n).kind = "print"}
    IN /\ \A i \in DOMAIN stdout :
              /\ stdout[i].seq \in rendered
              /\ stdout[i].line = out(stdout[i].seq).line
       /\ \A n \in rendered :
              Cardinality({i \in DOMAIN stdout : stdout[i].seq = n}) = 1
       /\ \A i, j \in DOMAIN stdout : i < j => stdout[i].seq < stdout[j].seq

C14_Witness ==
    /\ Len(stdout) = 2
    /\ stdout[1].seq = 1
    /\ stdout[2].seq = 2
    /\ delivered[1] # delivered[2]

\* C15: every handler invocation eventually returns, also when it reports an
\* error while chError is full or after Run has consumed its one value.
C15_HandlerReturns ==
    (hPc # "idle") ~> (hPc = "idle")

\* C16: once the feed is opened or the handler registered, the format is one
\* of json, yaml, pretty and a log level was supplied only with pretty; and
\* what the handler reads (format, threshold, type filter) never changes
\* after registration.
C16_ConfigValidAndFrozen ==
    /\ [](feed # "none" \/ registered
            => /\ flagFormat \in {"json", "yaml", "pretty"}
               /\ (flagLogLevel # "" => flagFormat = "pretty"))
    /\ [][registered => /\ flagFormat' = flagFormat
                        /\ logLevel' = logLevel
                        /\ flagType' = flagType
                        /\ flagLogLevel' = flagLogLevel]_vars

C16_Witness ==
    /\ registered
    /\ flagFormat = "pretty"
    /\ flagLogLevel = "INFO"
    /\ nDelivered = 2
    /\ pcRun = "done"

\* C17: suppressing a record below the threshold is a silent no-op: nothing
\* is written, nothing is sent on chError, the invocation returns and the
\* session stays as it was, so later events are still delivered.
C17_SuppressionSilent ==
    [][HandlerRuns /\ flagFormat = "pretty" /\ hEv.decodeOk
          /\ Severity # NoLevel /\ Severity > logLevel
          => /\ stdout' = stdout
             /\ chError' = chError
             /\ sent' = sent
             /\ occurred' = occurred
             /\ hPc' = "idle"
             /\ pcRun' = pcRun
             /\ runResult' = runResult
             /\ registered' = registered
             /\ feed' = feed]_vars

C17_Witness ==
    /\ logLevel = InfoLevel
    /\ nDelivered = 2
    /\ delivered[1].lvl = "dbug"
    /\ Len(stdout) = 1
    /\ stdout[1].seq = 2
    /\ sent = <<>>
    /\ occurred = <<>>
    /\ pcRun = "recv"

\* C19: once Wait has returned, the send of its result on chError by the
\* wait goroutine eventually completes, also after handler errors were sent
\* and Run has returned.
C19_WaitTaskTerminates ==
    (pcWait = "send") ~> (pcWait = "done")

\* C20: in pretty mode without a log-level option the threshold is debug:
\* every decoded record of level debug or more urgent is rendered and only
\* trace records are suppressed.
C20_DefaultThresholdDebug ==
    /\ [](registered /\ flagLogLevel = "" => logLevel = DebugLevel)
    /\ [][HandlerRuns /\ flagFormat = "pretty" /\ flagLogLevel = "" /\ Renderable
             => /\ (Severity <= DebugLevel <=> WritesOne)
                /\ (Severity = TraceLevel <=> stdout' = stdout)]_vars

C20_Witness ==
    /\ flagFormat = "pretty"
    /\ flagLogLevel = ""
    /\ nDelivered = 2
    /\ hPc = "idle"
    /\ delivered[1].lvl = "trace"
    /\ delivered[2].lvl = "dbug"
    /\ Len(stdout) = 1
    /\ stdout[1].seq = 2
    /\ stdout[1].line.level = DebugLevel

====
